---- MODULE Spec2Model ----
(***************************************************************************)
(* CCSDS command-packet header codec, XOR checksum and telecommand         *)
(* builder (ccsds.h, ccsds.c), with the ground-station and flight-software *)
(* programs that call them (server.c, client.c).                           *)
(*                                                                         *)
(* Memory is a sequence of bytes; byte offset i of the C buffer is element *)
(* i+1 of the sequence.  The primary header is six uint8 cells, so its     *)
(* layout is fixed.  The command secondary header is ONE uint16 cell       *)
(* (ccsds.h:110), so which of bytes 6 and 7 holds its high half depends on *)
(* the byte order of the host: that is the variable host.                  *)
(***************************************************************************)
EXTENDS Integers, Sequences, FiniteSets, TLC

VARIABLES
    host,   \* byte order of the machine running the code: "big" or "little"
    mem,    \* the buffer (PacketBuf / buffer[]), a sequence of bytes
    pre,    \* the buffer as it was before the last operation
    pc,     \* "idle", "wrote", "built", "rejected", "flipped", "validated",
            \* "accepted", "dropped", "ignored"
    args,   \* arguments of the last CCSDS_BuildTelecommand call
    ret,    \* value returned by the last CCSDS_BuildTelecommand call
    wr,     \* last header write macro applied: [field, value]
    flip,   \* bit corrupted in transit: [byte, bit], or NoFlip
    valid,  \* result of the last CCSDS_ValidCheckSum call
    nbytes, \* n, the value returned by the receiver's last recvfrom call
    rcvd    \* number of datagrams the receiver loop has taken

vars == <<host, mem, pre, pc, args, ret, wr, flip, valid, nbytes, rcvd>>

(***************************************************************************)
(* Bounds of the model.                                                    *)
(***************************************************************************)
\* longest payload enumerated byte by byte
MaxPayload == 2
\* bytes of memory behind the buffer pointer (the declared capacity never
\* exceeds it); the size of the receive buffer
MemLen == 20
\* iterations of the receiver loop followed
MaxDatagrams == 2

(***************************************************************************)
(* C integer operators on the values the code applies them to.             *)
(***************************************************************************)
RECURSIVE BitAnd(_, _)
\* a & b for non-negative a, b
BitAnd(a, b) ==
    IF a = 0 \/ b = 0 THEN 0
    ELSE (a % 2) * (b % 2) + 2 * BitAnd(a \div 2, b \div 2)

RECURSIVE BitOr(_, _)
\* a | b for non-negative a, b
BitOr(a, b) ==
    IF a = 0 THEN b
    ELSE IF b = 0 THEN a
    ELSE (IF a % 2 = 1 \/ b % 2 = 1 THEN 1 ELSE 0) + 2 * BitOr(a \div 2, b \div 2)

RECURSIVE BitXor(_, _)
\* a ^ b for non-negative a, b
BitXor(a, b) ==
    IF a = 0 THEN b
    ELSE IF b = 0 THEN a
    ELSE ((a + b) % 2) + 2 * BitXor(a \div 2, b \div 2)

RECURSIVE Pow2(_)
Pow2(n) == IF n = 0 THEN 1 ELSE 2 * Pow2(n - 1)

\* a << n (int arithmetic; no operand of the code reaches 2^31)
Shl(a, n) == a * Pow2(n)
\* a >> n (arithmetic shift: floor division, also for a negative int)
Shr(a, n) == a \div Pow2(n)
\* word & ~mask for a 16-bit word and a 16-bit mask
AndNot(word, mask) == BitAnd(word, 65535 - mask)
\* conversion on assignment to a uint8 / uint16 object
U8(x) == x % 256
U16(x) == x % 65536

(***************************************************************************)
(* Buffer cells.                                                           *)
(***************************************************************************)
\* buffer[i]
Byte(m, i) == m[i + 1]
\* buffer[i] = v
Put(m, i, v) == [m EXCEPT ![i + 1] = U8(v)]

\* (shdr).Command, a uint16 read in host byte order from bytes 6 and 7
Command(h, m) ==
    IF h = "big" THEN Byte(m, 6) * 256 + Byte(m, 7)
    ELSE Byte(m, 7) * 256 + Byte(m, 6)

\* (shdr).Command = w
SetCommand(h, m, w) ==
    IF h = "big" THEN Put(Put(m, 6, U16(w) \div 256), 7, U16(w) % 256)
    ELSE Put(Put(m, 7, U16(w) \div 256), 6, U16(w) % 256)

(***************************************************************************)
(* ccsds.h: bit-field macros.                                              *)
(***************************************************************************)
CCSDS_CMD == 1
CCSDS_HAS_SEC_HDR == 1
CCSDS_INIT_SEQFLG == 3
CCSDS_INIT_FC == 0
CCSDS_INIT_CHECKSUM == 0

CCSDS_RD_BITS(word, mask, shift) == Shr(BitAnd(word, mask), shift)

WR_BITS_ValueNotMasked(word, mask, shift, value) ==
    U16(BitOr(AndNot(word, mask), Shl(value, shift)))

CCSDS_WR_BITS(word, mask, shift, value) ==
    U16(BitOr(AndNot(word, mask), Shl(BitAnd(value, Shr(mask, shift)), shift)))

CCSDS_RD_SID(m) == Shl(Byte(m, 0), 8) + Byte(m, 1)

CCSDS_RD_APID(m) == BitAnd(CCSDS_RD_SID(m), 2047)

CCSDS_WR_APID(m, value) ==
    LET m1 == Put(m, 0, BitOr(BitAnd(Byte(m, 0), 248), BitAnd(Shr(value, 8), 7)))
    IN  Put(m1, 1, BitAnd(value, 255))

CCSDS_RD_SHDR(m) == Shr(BitAnd(Byte(m, 0), 8), 3)

WR_SHDR_MaskedBeforeShift(m, value) ==
    Put(m, 0, BitOr(BitAnd(Byte(m, 0), 247), Shl(BitAnd(value, 8), 3)))

CCSDS_WR_SHDR(m, value) ==
    Put(m, 0, BitOr(BitAnd(Byte(m, 0), 247), BitAnd(Shl(value, 3), 8)))

CCSDS_RD_TYPE(m) == Shr(BitAnd(Byte(m, 0), 16), 4)

CCSDS_WR_TYPE(m, value) ==
    Put(m, 0, BitOr(BitAnd(Byte(m, 0), 239), BitAnd(Shl(value, 4), 16)))

CCSDS_RD_VERS(m) == Shr(BitAnd(Byte(m, 0), 224), 5)

WR_VERS_ShiftBy4(m, value) ==
    Put(m, 0, BitOr(BitAnd(Byte(m, 0), 31), BitAnd(Shl(value, 4), 224)))

CCSDS_WR_VERS(m, value) ==
    Put(m, 0, BitOr(BitAnd(Byte(m, 0), 31), BitAnd(Shl(value, 5), 224)))

CCSDS_RD_SEQ(m) == Shl(BitAnd(Byte(m, 2), 63), 8) + Byte(m, 3)

WR_SEQ_FiveHighBits(m, value) ==
    LET m1 == Put(m, 2, BitOr(BitAnd(Byte(m, 2), 192), BitAnd(Shr(value, 8), 31)))
    IN  Put(m1, 3, BitAnd(value, 255))

CCSDS_WR_SEQ(m, value) ==
    LET m1 == Put(m, 2, BitOr(BitAnd(Byte(m, 2), 192), BitAnd(Shr(value, 8), 63)))
    IN  Put(m1, 3, BitAnd(value, 255))

CCSDS_RD_SEQFLG(m) == Shr(BitAnd(Byte(m, 2), 192), 6)

CCSDS_WR_SEQFLG(m, value) ==
    Put(m, 2, BitOr(BitAnd(Byte(m, 2), 63), BitAnd(Shl(value, 6), 192)))

RD_LEN_LowByteFirst(m) == Shl(Byte(m, 5), 8) + Byte(m, 4) + 7

\* the int value of the macro, before any conversion by its user
CCSDS_RD_LEN(m) == Shl(Byte(m, 4), 8) + Byte(m, 5) + 7

WR_LEN_WithoutOffset(m, value) ==
    LET m1 == Put(m, 4, Shr(value, 8))
    IN  Put(m1, 5, value % 256)

\* (value) - 7 is an int and is negative for value < 7; x & 0xff of an int is
\* its low byte, x % 256
CCSDS_WR_LEN(m, value) ==
    LET m1 == Put(m, 4, Shr(value - 7, 8))
    IN  Put(m1, 5, (value - 7) % 256)

CCSDS_RD_FC(h, m) == CCSDS_RD_BITS(Command(h, m), 32512, 8)

CCSDS_WR_FC(h, m, value) ==
    SetCommand(h, m, CCSDS_WR_BITS(Command(h, m), 32512, 8, value))

CCSDS_RD_CHECKSUM(h, m) == CCSDS_RD_BITS(Command(h, m), 255, 0)

CCSDS_WR_CHECKSUM(h, m, val) ==
    SetCommand(h, m, CCSDS_WR_BITS(Command(h, m), 255, 0, val))

\* bit 15 of (shdr).Command, "reserved, set to 0"; the header has no macro
\* for it
ReservedBit(h, m) == CCSDS_RD_BITS(Command(h, m), 32768, 15)

CLR_PRI_HDR_LeavesSequence0(m) ==
    LET m0 == Put(m, 0, 0)
        m1 == Put(m0, 1, 0)
        m3 == Put(m1, 3, 0)
        m4 == Put(m3, 4, 0)
    IN  Put(m4, 5, 0)

CCSDS_CLR_PRI_HDR(m) ==
    LET m0 == Put(m, 0, 0)
        m1 == Put(m0, 1, 0)
        m2 == Put(m1, 2, Shl(CCSDS_INIT_SEQFLG, 6))
        m3 == Put(m2, 3, 0)
        m4 == Put(m3, 4, 0)
    IN  Put(m4, 5, 0)

CCSDS_CLR_CMDSEC_HDR(h, m) ==
    SetCommand(h, m, BitOr(Shl(CCSDS_INIT_CHECKSUM, 0), Shl(CCSDS_INIT_FC, 8)))

(***************************************************************************)
(* ccsds.c: checksum.                                                      *)
(***************************************************************************)
RECURSIVE XorBytes(_, _, _, _)
\* while (PktLen--) CheckSum ^= *(BytePtr++);  from byte i up to byte n-1
XorBytes(m, i, n, CheckSum) ==
    IF i >= n THEN CheckSum
    ELSE XorBytes(m, i + 1, n, BitXor(CheckSum, Byte(m, i)))

\* uint16 PktLen = CCSDS_RD_LEN(...): the int value converted to uint16
PktLen(m) == U16(CCSDS_RD_LEN(m))

\* the loop reads bytes 0 .. PktLen-1: inside the memory of the buffer or not
ReadsInBounds(m) == PktLen(m) <= Len(m)

ComputeCheckSum_SkipsLastByte(m) == XorBytes(m, 0, PktLen(m) - 1, 255)

\* the value computed when every byte read exists
CCSDS_ComputeCheckSum(m) == XorBytes(m, 0, PktLen(m), 255)

\* the bytes past the modelled memory are unknown (stale bytes of a longer
\* buffer, or memory past its end, whose read is undefined): any byte may
\* come back, so any checksum may result
CheckSumOutcomes(m) ==
    IF ReadsInBounds(m) THEN {CCSDS_ComputeCheckSum(m)} ELSE 0..255

\* the buffers the call can leave: one, unless the checksum loop read past
\* the end of the memory
CCSDS_LoadCheckSum(h, m) ==
    LET m1 == CCSDS_WR_CHECKSUM(h, m, 0)
    IN  {CCSDS_WR_CHECKSUM(h, m1, CheckSum) : CheckSum \in CheckSumOutcomes(m1)}

(***************************************************************************)
(* ccsds.c: CCSDS_BuildTelecommand.                                        *)
(***************************************************************************)
\* sizeof(CCSDS_CommandPacket_t): six uint8 and one uint16, no padding
HeaderSize == 8

TotalLen32_Wraps16(PayloadLen) == U16(HeaderSize + PayloadLen)

\* uint32 sum of two 16-bit values: it cannot wrap
TotalLen32(PayloadLen) == HeaderSize + PayloadLen

\* the two early returns of 0
Rejected(a) ==
    \/ a.bufNull
    \/ TotalLen32(a.payLen) > a.cap
    \/ TotalLen32(a.payLen) > 65535

RECURSIVE CopyLoop(_, _, _, _, _)
\* for (i = 0; i < PayloadLen; ++i) DataPtr[i] = Payload[i];  from index i on
CopyLoop(m, DataPtr, Payload, PayloadLen, i) ==
    IF i >= PayloadLen THEN m
    ELSE CopyLoop(Put(m, DataPtr + i, Payload[i + 1]), DataPtr, Payload, PayloadLen, i + 1)

CopyPayload_OneTooFar(m, a) ==
    IF ~a.payNull /\ a.payLen > 0
    THEN CopyLoop(m, HeaderSize + 1, a.payload, a.payLen, 0)
    ELSE m

RECURSIVE ZeroLoop(_, _, _, _)
ZeroLoop(m, DataPtr, PayloadLen, i) ==
    IF i >= PayloadLen THEN m
    ELSE ZeroLoop(Put(m, DataPtr + i, 0), DataPtr, PayloadLen, i + 1)

CopyPayload_ZeroFillsNull(m, a) ==
    IF a.payLen = 0 THEN m
    ELSE IF a.payNull THEN ZeroLoop(m, HeaderSize, a.payLen, 0)
    ELSE CopyLoop(m, HeaderSize, a.payload, a.payLen, 0)

\* if (Payload != NULL && PayloadLen > 0) { copy }
CopyPayload(m, a) ==
    IF ~a.payNull /\ a.payLen > 0
    THEN CopyLoop(m, HeaderSize, a.payload, a.payLen, 0)
    ELSE m

\* the buffers a call that passed both checks can leave
BuildMem(h, m, a) ==
    LET TotalLen == U16(TotalLen32(a.payLen))
        c1 == CCSDS_CLR_PRI_HDR(m)
        c2 == CCSDS_CLR_CMDSEC_HDR(h, c1)
        w1 == CCSDS_WR_APID(c2, a.apid)
        w2 == CCSDS_WR_TYPE(w1, CCSDS_CMD)
        w3 == CCSDS_WR_SHDR(w2, CCSDS_HAS_SEC_HDR)
        w4 == CCSDS_WR_VERS(w3, 0)
        w5 == CCSDS_WR_SEQ(w4, a.seq)
        w6 == CCSDS_WR_LEN(w5, TotalLen)
        w7 == CCSDS_WR_FC(h, w6, a.fc)
        w8 == CopyPayload(w7, a)
    IN  CCSDS_LoadCheckSum(h, w8)

(***************************************************************************)
(* Inputs.                                                                 *)
(***************************************************************************)
\* stale contents of the buffer before the code touches it
Fills == {0, 90, 255}
\* 16-bit arguments of the header write macros, inside and outside every
\* field width
Vals == {0, 1, 5, 6, 7, 8, 18, 127, 128, 255, 256, 262, 263, 2047, 2048,
         16383, 16384, 42405, 65535}
Apids == {0, 421, 2047, 65535}
Seqs == {0, 16383, 16389}
Fcs == {10, 127, 138}
PayBytes == {0, 2}
\* "CMD_SEQ_0" and its terminating zero (server.c:85, :91)
CmdSeq0 == <<67, 77, 68, 95, 83, 69, 81, 95, 48, 0>>
Payloads == UNION {[1..n -> PayBytes] : n \in 0..MaxPayload} \cup {CmdSeq0}
\* payload lengths for which 8 + PayloadLen reaches or passes 2^16; the
\* call is rejected before Payload is read, so these are given with no array
BigLens == {65527, 65528, 65535}
Caps == {0, 7} \cup (HeaderSize .. HeaderSize + MaxPayload) \cup {18, MemLen}

PayArgs ==
    {[payNull |-> FALSE, payload |-> p, payLen |-> Len(p)] : p \in Payloads}
    \cup {[payNull |-> TRUE, payload |-> <<>>, payLen |-> n] :
             n \in (0..MaxPayload) \cup BigLens}

NoArgs == [bufNull |-> TRUE, cap |-> 0, apid |-> 0, seq |-> 0, fc |-> 0,
           payNull |-> TRUE, payload |-> <<>>, payLen |-> 0]
NoWrite == [field |-> "none", value |-> 0]
NoFlip == [byte |-> -1, bit |-> -1]

\* what the socket can hand to recvfrom: any bytes from any sender.
\*   a valid header-only packet; a valid packet with payload 00 02;
\*   8 bytes whose Length field declares 9; 6 bytes whose Length field is
\*   0xFFFF; 2 bytes; 8 bytes whose Length field declares 1031; 8 bytes whose
\*   Length field is 0xFFF9; an empty datagram
Datagrams ==
    {<<24, 0, 192, 0, 0, 1, 10, 44>>,
     <<24, 0, 192, 0, 0, 3, 10, 44, 0, 2>>,
     <<24, 0, 192, 0, 0, 2, 10, 47>>,
     <<255, 0, 0, 0, 255, 255>>,
     <<0, 0>>,
     <<24, 0, 192, 0, 4, 0, 10, 0>>,
     <<24, 0, 192, 0, 255, 249, 10, 0>>,
     <<>>}

\* recvfrom(sockfd, buffer, BUF_SIZE, ...): the datagram d lands at the start
\* of the buffer, the bytes after it stay as they were
Stored(m, d) == [i \in 1..Len(m) |-> IF i <= Len(d) THEN d[i] ELSE m[i]]

(***************************************************************************)
(* State machine.                                                          *)
(***************************************************************************)
Init ==
    /\ host \in {"big", "little"}
    /\ mem \in {[i \in 1..MemLen |-> f] : f \in Fills}
    /\ pre = mem
    /\ pc = "idle"
    /\ args = NoArgs
    /\ ret = 0
    /\ wr = NoWrite
    /\ flip = NoFlip
    /\ valid = FALSE
    /\ nbytes = 0
    /\ rcvd = 0

\* one header write macro applied to the header at the start of the buffer
Write(field, value, m) ==
    /\ pc = "idle"
    /\ pre' = mem
    /\ mem' = m
    /\ wr' = [field |-> field, value |-> value]
    /\ pc' = "wrote"
    /\ UNCHANGED <<host, args, ret, flip, valid, nbytes, rcvd>>

WrVers == \E v \in Vals : Write("VERS", v, CCSDS_WR_VERS(mem, v))
WrType == \E v \in Vals : Write("TYPE", v, CCSDS_WR_TYPE(mem, v))
WrShdr == \E v \in Vals : Write("SHDR", v, CCSDS_WR_SHDR(mem, v))
WrApid == \E v \in Vals : Write("APID", v, CCSDS_WR_APID(mem, v))
WrSeqFlg == \E v \in Vals : Write("SEQFLG", v, CCSDS_WR_SEQFLG(mem, v))
WrSeq == \E v \in Vals : Write("SEQ", v, CCSDS_WR_SEQ(mem, v))
WrLen == \E v \in Vals : Write("LEN", v, CCSDS_WR_LEN(mem, v))
WrFc == \E v \in Vals : Write("FC", v, CCSDS_WR_FC(host, mem, v))
WrCheckSum == \E v \in Vals : Write("CHECKSUM", v, CCSDS_WR_CHECKSUM(host, mem, v))

\* one call of CCSDS_BuildTelecommand on the buffer
CCSDS_BuildTelecommand ==
    /\ pc = "idle"
    /\ \E bufNull \in BOOLEAN, cap \in Caps, apid \in Apids, seq \in Seqs,
          fc \in Fcs, p \in PayArgs :
          LET a == [bufNull |-> bufNull, cap |-> cap, apid |-> apid, seq |-> seq,
                    fc |-> fc, payNull |-> p.payNull, payload |-> p.payload,
                    payLen |-> p.payLen]
          IN  /\ args' = a
              /\ pre' = mem
              /\ IF Rejected(a)
                 THEN /\ mem' = mem
                      /\ ret' = 0
                      /\ pc' = "rejected"
                 ELSE /\ mem' \in BuildMem(host, mem, a)
                      /\ ret' = U16(TotalLen32(a.payLen))
                      /\ pc' = "built"
    /\ UNCHANGED <<host, wr, flip, valid, nbytes, rcvd>>

\* the built packet travels as ret raw bytes (sendto / recvfrom) and one bit
\* of it is inverted on the way; the call's arguments are gone by then
FlipBit ==
    /\ pc = "built"
    /\ \E i \in 0..(ret - 1), b \in 0..7 :
          /\ mem' = Put(mem, i, BitXor(Byte(mem, i), Pow2(b)))
          /\ flip' = [byte |-> i, bit |-> b]
    /\ pre' = mem
    /\ args' = NoArgs
    /\ pc' = "flipped"
    /\ UNCHANGED <<host, ret, wr, valid, nbytes, rcvd>>

\* one call of CCSDS_ValidCheckSum on the buffer
CCSDS_ValidCheckSum ==
    /\ pc \in {"built", "flipped"}
    /\ \E c \in CheckSumOutcomes(mem) : valid' = (c = 0)
    /\ pc' = "validated"
    /\ UNCHANGED <<host, mem, pre, args, ret, wr, flip, nbytes, rcvd>>

\* one iteration of the receiver loop (client.c:69-110): recvfrom, then for
\* n > 0 CCSDS_ValidCheckSum on the buffer and, when it passes, the header
\* reads; nothing compares n with the Length field
Receive ==
    /\ pc \in {"idle", "accepted", "dropped", "ignored"}
    /\ rcvd < MaxDatagrams
    /\ \E d \in Datagrams :
          /\ Len(d) <= MemLen
          /\ nbytes' = Len(d)
          /\ mem' = Stored(mem, d)
          /\ IF Len(d) > 0
             THEN \E c \in CheckSumOutcomes(Stored(mem, d)) :
                     /\ valid' = (c = 0)
                     /\ pc' = IF c = 0 THEN "accepted" ELSE "dropped"
             ELSE /\ valid' = valid
                  /\ pc' = "ignored"
    /\ pre' = mem
    /\ rcvd' = rcvd + 1
    /\ UNCHANGED <<host, args, ret, wr, flip>>

\* the bytes of the buffer, from offset 0, that one iteration has read: the
\* checksum loop reads PktLen of them, the header reads of an accepted
\* packet read the first eight
BytesRead(m, ok) ==
    IF ok /\ PktLen(m) < HeaderSize THEN HeaderSize ELSE PktLen(m)

Next ==
    \/ WrVers \/ WrType \/ WrShdr \/ WrApid \/ WrSeqFlg \/ WrSeq \/ WrLen
    \/ WrFc \/ WrCheckSum
    \/ CCSDS_BuildTelecommand
    \/ FlipBit
    \/ CCSDS_ValidCheckSum
    \/ Receive

Spec == Init /\ [][Next]_vars

(***************************************************************************)
(* Properties.                                                             *)
(***************************************************************************)
\* CCSDS_BuildTelecommand has just returned a packet
Built == pc = "built"
\* a header write macro has just been applied
Wrote(f) == pc = "wrote" /\ wr.field = f

\* C1: a successful CCSDS_BuildTelecommand returns 8 + PayloadLen, the Length
\* field read back equals the returned value, the XOR of bytes 0 .. returned-1
\* from seed 0xFF is 0, and CCSDS_ValidCheckSum on the built packet is true.
C1_BuildYieldsValidPacket ==
    /\ Built =>
          /\ ret = 8 + args.payLen
          /\ CCSDS_RD_LEN(mem) = ret
          /\ XorBytes(mem, 0, ret, 255) = 0
    /\ (pc = "validated" /\ flip = NoFlip) => valid

C1_Witness ==
    /\ pc = "validated"
    /\ flip = NoFlip
    /\ ret = 18
    /\ valid

\* C2 as stated: after a successful build, inverting any one bit of any byte
\* 0 .. total length-1 makes CCSDS_ValidCheckSum return false.
C2_AnyBitFlipFailsValidation ==
    (pc = "validated" /\ flip # NoFlip) => ~valid

\* C2 amended: inverting any one bit of any byte 0 .. total length-1 other
\* than the two Length bytes (4 and 5) makes CCSDS_ValidCheckSum return false.
C2_FlipOutsideLengthFailsValidation ==
    (pc = "validated" /\ flip # NoFlip /\ flip.byte \notin {4, 5}) => ~valid

C2_Witness ==
    /\ pc = "validated"
    /\ flip.byte = 9
    /\ ret = 10
    /\ ~valid

\* C3: the bytes a build produces are the same on a big-endian and on a
\* little-endian host: byte 6 holds the reserved bit and the 7-bit function
\* code, byte 7 holds the checksum, every multi-byte field is stored
\* most-significant byte first.
C3_SameBytesOnEitherHost ==
    Built =>
        /\ mem \in BuildMem("big", pre, args)
        /\ mem \in BuildMem("little", pre, args)
        /\ Byte(mem, 6) = 128 * ReservedBit(host, mem) + CCSDS_RD_FC(host, mem)
        /\ Byte(mem, 7) = CCSDS_RD_CHECKSUM(host, mem)
        /\ Byte(mem, 0) * 256 + Byte(mem, 1) = 6144 + (args.apid % 2048)
        /\ Byte(mem, 2) * 256 + Byte(mem, 3) = 49152 + (args.seq % 16384)
        /\ Byte(mem, 4) * 256 + Byte(mem, 5) = ret - 7

\* C4: round trip.  For apid in 0..2047, seqCount in 0..16383, functionCode in
\* 0..127 and a payload of length L, after a successful build CCSDS_RD_APID,
\* CCSDS_RD_SEQ and CCSDS_RD_FC return apid, seqCount and functionCode, and
\* bytes 8 .. 8+L-1 are the payload bytes in order.
C4_RoundTrip ==
    (/\ Built
     /\ ~args.payNull
     /\ args.apid \in 0..2047
     /\ args.seq \in 0..16383
     /\ args.fc \in 0..127) =>
        /\ CCSDS_RD_APID(mem) = args.apid
        /\ CCSDS_RD_SEQ(mem) = args.seq
        /\ CCSDS_RD_FC(host, mem) = args.fc
        /\ \A i \in 0..(args.payLen - 1) : Byte(mem, 8 + i) = args.payload[i + 1]

C4_Witness ==
    /\ Built
    /\ ~args.payNull
    /\ args.apid = 2047
    /\ args.seq = 16383
    /\ args.fc = 127
    /\ args.payload = <<0, 2>>
    /\ CCSDS_RD_SEQ(mem) = 16383

\* C5: CCSDS_BuildTelecommand returns 0 exactly when the buffer is absent, or
\* 8 + PayloadLen exceeds PacketBufSize, or 8 + PayloadLen exceeds 65535 (the
\* sum taken without wrap-around); required size = capacity succeeds and
\* required size = capacity + 1 fails.
C5_ReturnsZeroIffRejected ==
    (pc \in {"built", "rejected"}) =>
        /\ (ret = 0) <=>
              \/ args.bufNull
              \/ 8 + args.payLen > args.cap
              \/ 8 + args.payLen > 65535
        /\ (pc = "rejected") <=> (ret = 0)

C5_Witness ==
    /\ pc = "rejected"
    /\ ~args.bufNull
    /\ args.payLen = 65535
    /\ args.cap = MemLen
    /\ ret = 0

\* C6: write footprint.  A rejected call modifies no byte of the buffer; a
\* successful call modifies only bytes 0 .. returned length-1, so never a
\* byte at an offset >= PacketBufSize.
C6_WriteFootprint ==
    /\ pc = "rejected" => mem = pre
    /\ Built =>
          /\ ret <= args.cap
          /\ \A i \in 0..(MemLen - 1) :
                Byte(mem, i) # Byte(pre, i) => (i < ret /\ i < args.cap)

C6_Witness ==
    /\ Built
    /\ ret = args.cap
    /\ ret < MemLen
    /\ Byte(mem, ret - 1) # Byte(pre, ret - 1)
    /\ Byte(pre, ret) = 255

\* the call of Scenario A (server.c:66, :85, :86, :91 with seq = 0)
ScenarioA ==
    /\ Built
    /\ args.apid = 421
    /\ args.seq = 0
    /\ args.fc = 10
    /\ ~args.payNull
    /\ args.payload = CmdSeq0
    /\ args.payLen = 10

\* C7 as stated: Scenario A returns 18, leaves byte 0 = 0x01 and bytes 4, 5
\* = 0x00, 0x0B.
C7_ScenarioA_Byte0Is01 ==
    ScenarioA =>
        /\ ret = 18
        /\ Byte(mem, 0) = 1
        /\ Byte(mem, 4) = 0
        /\ Byte(mem, 5) = 11

\* C7 amended: Scenario A returns 18, leaves byte 0 = 0x19 (version 0, type
\* 1, secondary-header flag 1, high three bits of the application ID 001)
\* and bytes 4, 5 = 0x00, 0x0B.
C7_ScenarioA_Byte0Is19 ==
    ScenarioA =>
        /\ ret = 18
        /\ Byte(mem, 0) = 25
        /\ Byte(mem, 4) = 0
        /\ Byte(mem, 5) = 11

C7_Witness ==
    /\ ScenarioA
    /\ ret = 18
    /\ Byte(mem, 1) = 165

\* C8: truncation law.  For version (3 bits), packet type (1), secondary
\* header flag (1), application ID (11), sequence flags (2), sequence count
\* (14), function code (7) and checksum (8), a write of the 16-bit value v
\* followed by the matching read returns v mod 2^w.
C8_TruncationLaw ==
    /\ Wrote("VERS") => CCSDS_RD_VERS(mem) = wr.value % 8
    /\ Wrote("TYPE") => CCSDS_RD_TYPE(mem) = wr.value % 2
    /\ Wrote("SHDR") => CCSDS_RD_SHDR(mem) = wr.value % 2
    /\ Wrote("APID") => CCSDS_RD_APID(mem) = wr.value % 2048
    /\ Wrote("SEQFLG") => CCSDS_RD_SEQFLG(mem) = wr.value % 4
    /\ Wrote("SEQ") => CCSDS_RD_SEQ(mem) = wr.value % 16384
    /\ Wrote("FC") => CCSDS_RD_FC(host, mem) = wr.value % 128
    /\ Wrote("CHECKSUM") => CCSDS_RD_CHECKSUM(host, mem) = wr.value % 256

C8_Witness ==
    /\ Wrote("VERS")
    /\ wr.value = 42405
    /\ CCSDS_RD_VERS(pre) = 2
    /\ CCSDS_RD_VERS(mem) = 5

\* every field of the primary and the command secondary header, read back
HeaderFields(h, m) ==
    [VERS |-> CCSDS_RD_VERS(m), TYPE |-> CCSDS_RD_TYPE(m),
     SHDR |-> CCSDS_RD_SHDR(m), APID |-> CCSDS_RD_APID(m),
     SEQFLG |-> CCSDS_RD_SEQFLG(m), SEQ |-> CCSDS_RD_SEQ(m),
     LEN |-> CCSDS_RD_LEN(m), RESERVED |-> ReservedBit(h, m),
     FC |-> CCSDS_RD_FC(h, m), CHECKSUM |-> CCSDS_RD_CHECKSUM(h, m)]

\* C9: accessor frame.  Each write macro changes only its own field: every
\* other field of the two headers (the reserved bit among them) reads back as
\* before, and no byte after the headers changes.  In particular CCSDS_WR_FC
\* keeps the reserved bit and the checksum, CCSDS_WR_CHECKSUM keeps the
\* reserved bit and the function code.
C9_AccessorFrame ==
    pc = "wrote" =>
        /\ \A f \in DOMAIN HeaderFields(host, mem) \ {wr.field} :
              HeaderFields(host, mem)[f] = HeaderFields(host, pre)[f]
        /\ \A i \in 8..(MemLen - 1) : Byte(mem, i) = Byte(pre, i)

C9_Witness ==
    /\ Wrote("FC")
    /\ wr.value = 128
    /\ ReservedBit(host, mem) = 1
    /\ CCSDS_RD_FC(host, pre) = 127
    /\ CCSDS_RD_FC(host, mem) = 0
    /\ CCSDS_RD_CHECKSUM(host, mem) = 255

\* C10: length encoding law.  For a total length x in 7..65535, CCSDS_WR_LEN
\* stores x - 7 in the two Length bytes, most-significant byte first, and
\* CCSDS_RD_LEN then returns x.
C10_LengthEncoding ==
    (Wrote("LEN") /\ wr.value \in 7..65535) =>
        /\ Byte(mem, 4) = (wr.value - 7) \div 256
        /\ Byte(mem, 5) = (wr.value - 7) % 256
        /\ CCSDS_RD_LEN(mem) = wr.value

C10_Witness ==
    /\ Wrote("LEN")
    /\ wr.value = 263
    /\ Byte(mem, 4) = 1
    /\ Byte(mem, 5) = 0

\* the value of the 16-bit Length field on the wire
LengthField(m) == Byte(m, 4) * 256 + Byte(m, 5)
\* CCSDS_ValidCheckSum has just run on the buffer
Checked == pc \in {"validated", "accepted", "dropped"}

\* C11: for every value 0..65535 of the Length field, CCSDS_ComputeCheckSum
\* XORs exactly the first (Length field + 7) bytes of the packet into 0xFF,
\* modifies no byte, and CCSDS_ValidCheckSum is true exactly when that value
\* is 0.
C11_SumsLengthFieldPlus7Bytes ==
    Checked =>
        /\ PktLen(mem) = LengthField(mem) + 7
        /\ LengthField(mem) + 7 <= MemLen =>
              (valid <=> XorBytes(mem, 0, LengthField(mem) + 7, 255) = 0)
        /\ pc # "validated" =>
              \E d \in Datagrams : Len(d) = nbytes /\ mem = Stored(pre, d)

\* the buffer m with its first eight bytes replaced by the byte f
StaleHeader(m, f) == [i \in 1..Len(m) |-> IF i <= 8 THEN f ELSE m[i]]

\* C12: after every successful build, whatever the buffer held before, the
\* header reads version 0, packet type 1, secondary-header flag 1, sequence
\* flags 3 and reserved bit 0, and no bit that the first 8 bytes held before
\* the call survives: the 8 header bytes are the same for any earlier content
\* of those 8 bytes.
C12_HeaderFreshAfterBuild ==
    Built =>
        /\ CCSDS_RD_VERS(mem) = 0
        /\ CCSDS_RD_TYPE(mem) = 1
        /\ CCSDS_RD_SHDR(mem) = 1
        /\ CCSDS_RD_SEQFLG(mem) = 3
        /\ ReservedBit(host, mem) = 0
        /\ \A f \in Fills \cup {165} :
              \A b \in BuildMem(host, StaleHeader(pre, f), args) :
                  \A i \in 0..7 : Byte(b, i) = Byte(mem, i)

C12_Witness ==
    /\ Built
    /\ Byte(pre, 0) = 255
    /\ Byte(pre, 6) = 255
    /\ args.fc = 138
    /\ args.apid = 65535
    /\ CCSDS_RD_VERS(mem) = 0
    /\ CCSDS_RD_SEQFLG(mem) = 3

\* C13: with no payload array but PayloadLen > 0 and 8 + PayloadLen within
\* the capacity, the build succeeds and returns 8 + PayloadLen, leaves bytes
\* 8 .. 8+PayloadLen-1 as they were, writes Length for the full size, and
\* loads a checksum over those earlier bytes, so that CCSDS_ValidCheckSum
\* passes.
C13_NullPayloadKeepsStaleBytes ==
    /\ (/\ pc \in {"built", "rejected"}
        /\ ~args.bufNull
        /\ args.payNull
        /\ args.payLen > 0
        /\ 8 + args.payLen <= args.cap) =>
           /\ pc = "built"
           /\ ret = 8 + args.payLen
           /\ \A i \in 8..(ret - 1) : Byte(mem, i) = Byte(pre, i)
           /\ CCSDS_RD_LEN(mem) = ret
           /\ XorBytes(mem, 0, ret, 255) = 0
    /\ (/\ pc = "validated"
        /\ flip = NoFlip
        /\ args.payNull
        /\ args.payLen > 0) => valid

C13_Witness ==
    /\ pc = "validated"
    /\ flip = NoFlip
    /\ args.payNull
    /\ args.payLen = 2
    /\ Byte(mem, 8) = 90
    /\ Byte(mem, 9) = 90
    /\ ret = 10
    /\ valid

\* the receive buffer with everything after the datagram replaced by the
\* byte f
StaleTail(m, f) == [i \in 1..Len(m) |-> IF i <= nbytes THEN m[i] ELSE f]

\* C14: in the receiver loop, checksum validation and field decoding of a
\* datagram of n bytes read only bytes 0 .. n-1 of the receive buffer: they
\* never read past the end of the buffer, and the accept/drop decision is the
\* same whatever earlier datagrams left after byte n-1, also for datagrams
\* shorter than 8 bytes or whose Length field declares more than n bytes.
C14_ReceiverReadsOnlyTheDatagram ==
    (pc \in {"accepted", "dropped"}) =>
        /\ BytesRead(mem, valid) <= nbytes
        /\ BytesRead(mem, valid) <= MemLen
        /\ \A f \in Fills :
              /\ ReadsInBounds(StaleTail(mem, f))
              /\ valid <=> (CCSDS_ComputeCheckSum(StaleTail(mem, f)) = 0)

====
